---- MODULE Spec2Model ----
(***************************************************************************)
(* Model of src/nai-ddos.py: the worker pool, the shared job queue, the    *)
(* per-thread pacing, the lock-guarded Metrics object and the run          *)
(* controller (main).  Time is an integer clock in milliseconds.  A thread *)
(* that sleeps or waits for a response carries a wake-up time; the clock   *)
(* advances to the next wake-up time once no thread can take a step.       *)
(***************************************************************************)
EXTENDS Integers, Sequences, FiniteSets

\* ---- bounds of the model ----
MaxThreads == 2
MaxAttempts == 3
MaxFastAttempts == 12
MaxSamples == 4
MaxSteadyAttempts == 200

\* ---- program constants (milliseconds unless noted) ----
WARMUP == 1000
WarmupSleepCap == 10
LogPeriod == 1000
CountdownSleeps == 24
CountdownSleep == 80
PollInterval == 200
JoinTimeout == 1000
QueueCap == 1000
JobsPerThread == 10
OkLow == 200
OkHigh == 500
JitterBase == 80
JitterSpan == 40
PctScale == 100

\* ---- values that stand for Python objects ----
NoCode == 0
ConnectionError == 0 - 1
Timeout == 0 - 2
PyNone == "None"
Never == 0 - 1
Free == 0 - 1
NoHeaders == {}
URL == "http://target/"

\* ---- the environment: what the target may answer, and how fast ----
\* An outcome is a status code or the exception the transport raises.
\* MixedTarget: answers, transport errors and requests that never
\* return; EdgeTarget: the status codes around the classification bounds;
\* FastTarget: always 200 with negligible latency; SteadyTarget: always 200 in
\* 5 ms.  cap bounds the attempts.
StatusCodes == {199, 200, 499, 500}
MixedTarget == [outcomes |-> {200, ConnectionError}, lats |-> {5, Never}, cap |-> MaxAttempts]
EdgeTarget == [outcomes |-> StatusCodes \cup {ConnectionError, Timeout}, lats |-> {0, 600, 1500}, cap |-> MaxAttempts]
FastTarget == [outcomes |-> {200}, lats |-> {0}, cap |-> MaxFastAttempts]
SteadyTarget == [outcomes |-> {200}, lats |-> {5}, cap |-> MaxSteadyAttempts]

\* rng.random() is in [0, 1): the jitter factor 0.8 + 0.4 * random(), in percent
RandomPercent == {0, 50, 99}

Min(S) == CHOOSE x \in S : \A y \in S : x <= y
MinOf(a, b) == IF a <= b THEN a ELSE b

\* ---- command lines the model runs (argparse results, lines 218-230) ----
PlainRequest == [method |-> "GET", payload |-> PyNone, headers |-> NoHeaders]
BodyRequest == [method |-> "POST", payload |-> "body", headers |-> {<<"X-Run", "1">>}]

MakeArgs(t, r, d, q) ==
  [url |-> URL, method |-> q.method, threads |-> t, rps |-> r, duration |-> d,
   payload |-> q.payload, headers |-> q.headers]

Runs ==
  { [args |-> MakeArgs(MaxThreads, 0, d, PlainRequest), target |-> MixedTarget] : d \in {0, 1} }
  \cup
  { [args |-> MakeArgs(1, 0, 1, PlainRequest), target |-> EdgeTarget] }
  \cup
  { [args |-> MakeArgs(t, 2, 1, PlainRequest), target |-> FastTarget] : t \in {1, 2} }
  \cup
  { [args |-> MakeArgs(1, 0, 1, BodyRequest), target |-> FastTarget] }
  \cup
  { [args |-> MakeArgs(1, 0, 1, PlainRequest), target |-> SteadyTarget] }

\* runs against the target that may leave requests unanswered: two unpaced
\* workers, and one paced worker
HangRuns ==
  { [args |-> MakeArgs(2, 0, 1, PlainRequest), target |-> MixedTarget],
    [args |-> MakeArgs(1, 2, 1, PlainRequest), target |-> MixedTarget] }

VARIABLES
  args, target,              \* the parsed command line; the target's behaviour
  clock,                     \* time.time() / time.perf_counter(), in ms
  start_ts, end_ts,          \* the run window
  shutdown_flag,             \* threading.Event
  job_q,                     \* queue.Queue of job tuples
  metrics, lock,             \* the Metrics object and the owner of its lock
  pc, wake,                  \* per worker: position in worker(), wake-up time
  seen, now, delay, job, t0, ok, code, latency, last_log, tmp,   \* worker locals
  pulse,                     \* the last live progress line worker 0 wrote
  mpc, mwake, mcount, report,\* main: position, wake-up time, loop counter, report
  hist                       \* history counters (not program state)

shared == <<args, target, start_ts, end_ts>>
locals == <<seen, now, delay, job, t0, ok, code, latency, last_log, tmp>>
mainv == <<mpc, mwake, mcount, report>>
vars == <<args, target, clock, start_ts, end_ts, shutdown_flag, job_q, metrics, lock,
          pc, wake, seen, now, delay, job, t0, ok, code, latency, last_log, tmp, pulse,
          mpc, mwake, mcount, report, hist>>

Workers == 0..(args.threads - 1)

\* ---- Metrics.__init__ (lines 64-69) ----
MetricsInit == [latencies |-> <<>>, success |-> 0, fail |-> 0, codes |-> <<>>]

\* dict.get(code, 0)
Get(d, k) == IF k \in DOMAIN d THEN d[k] ELSE 0
\* d[k] = v on a dict
Put(d, k, v) == [x \in DOMAIN d \cup {k} |-> IF x = k THEN v ELSE d[x]]

\* the job tuple main puts on the queue (line 253)
DefaultJob(a) == <<a.method, a.url, a.payload, a.headers>>

\* Queue after the starter loop (lines 252-253)
StarterJobs(a) == [i \in 1..MinOf(QueueCap, a.threads * JobsPerThread) |-> DefaultJob(a)]

InitOf(R) ==
  \E run \in R :
    /\ args = run.args
    /\ target = run.target
    /\ clock = 0
    /\ start_ts = WARMUP
    /\ end_ts = WARMUP + run.args.duration * 1000
    /\ shutdown_flag = FALSE
    /\ job_q = StarterJobs(run.args)
    /\ metrics = MetricsInit
    /\ lock = Free
    /\ pc = [w \in 0..(run.args.threads - 1) |-> "while"]
    /\ wake = [w \in 0..(run.args.threads - 1) |-> 0]
    /\ seen = [w \in 0..(run.args.threads - 1) |-> FALSE]
    /\ now = [w \in 0..(run.args.threads - 1) |-> 0]
    /\ delay = [w \in 0..(run.args.threads - 1) |-> 0]
    /\ job = [w \in 0..(run.args.threads - 1) |-> <<>>]
    /\ t0 = [w \in 0..(run.args.threads - 1) |-> 0]
    /\ ok = [w \in 0..(run.args.threads - 1) |-> FALSE]
    /\ code = [w \in 0..(run.args.threads - 1) |-> NoCode]
    /\ latency = [w \in 0..(run.args.threads - 1) |-> 0]
    /\ last_log = [w \in 0..(run.args.threads - 1) |-> 0]
    /\ tmp = [w \in 0..(run.args.threads - 1) |-> 0]
    /\ pulse = <<>>
    /\ mpc = "countdown"
    /\ mwake = 0
    /\ mcount = CountdownSleeps
    /\ report = <<>>
    /\ hist = [attempts |-> 0, completed |-> 0, recorded |-> 0, nocode |-> 0,
               errors |-> 0, resp |-> <<>>, sigint |-> FALSE,
               early |-> FALSE, abandoned |-> {}]

Init == InitOf(Runs)

(***************************************************************************)
(* worker(), lines 100-166                                                 *)
(***************************************************************************)

\* threading.Event.is_set() (lines 106, 277)
IsSetNever(e) == FALSE
IsSet(e) == e

\* line 106: while not shutdown_flag.is_set()
WhileCheck(w) ==
  /\ pc[w] = "while"
  /\ seen' = [seen EXCEPT ![w] = IsSet(shutdown_flag)]
  /\ pc' = [pc EXCEPT ![w] = IF IsSet(shutdown_flag) THEN "done" ELSE "now"]
  /\ UNCHANGED <<shared, clock, shutdown_flag, job_q, metrics, lock, wake,
                 now, delay, job, t0, ok, code, latency, last_log, tmp, pulse, mainv, hist>>

\* line 109: min(0.01, start_ts - now)
WarmupSleep(n) == MinOf(WarmupSleepCap, start_ts - n)

\* line 108: if now < start_ts
BeforeWindow(n) == n < start_ts

\* variant: the closing instant itself is still inside the window
WindowClosedAfter(n) == n > end_ts

\* line 111: if now >= end_ts
WindowClosed(n) == n >= end_ts

\* lines 107-112: read the clock, wait for the window or leave at its end
WindowCheck(w) ==
  /\ pc[w] = "now"
  /\ now' = [now EXCEPT ![w] = clock]
  /\ IF BeforeWindow(clock)
       THEN /\ pc' = [pc EXCEPT ![w] = "warm_sleep"]
            /\ wake' = [wake EXCEPT ![w] = clock + WarmupSleep(clock)]
       ELSE /\ pc' = [pc EXCEPT ![w] = IF WindowClosed(clock) THEN "done" ELSE "job"]
            /\ wake' = wake
  /\ UNCHANGED <<shared, clock, shutdown_flag, job_q, metrics, lock,
                 seen, delay, job, t0, ok, code, latency, last_log, tmp, pulse, mainv, hist>>

\* lines 109-110: time.sleep returns, continue
WarmupWake(w) ==
  /\ pc[w] = "warm_sleep"
  /\ clock >= wake[w]
  /\ pc' = [pc EXCEPT ![w] = "while"]
  /\ UNCHANGED <<shared, clock, shutdown_flag, job_q, metrics, lock, wake, locals,
                 pulse, mainv, hist>>

\* lines 115-119: the per-request delay, in ms
Delay(a) == IF a.rps > 0 THEN 1000 \div a.rps ELSE 0

\* lines 125-128: the job used when the queue is empty
FallbackJob(a) == <<a.method, a.url, PyNone, NoHeaders>>

\* lines 114-128: compute the delay, take a job without blocking
TakeJob(w) ==
  /\ pc[w] = "job"
  /\ delay' = [delay EXCEPT ![w] = Delay(args)]
  /\ IF job_q # <<>>
       THEN /\ job' = [job EXCEPT ![w] = Head(job_q)]
            /\ job_q' = Tail(job_q)
       ELSE /\ job' = [job EXCEPT ![w] = FallbackJob(args)]
            /\ job_q' = job_q
  /\ pc' = [pc EXCEPT ![w] = "send"]
  /\ UNCHANGED <<shared, clock, shutdown_flag, metrics, lock, wake,
                 seen, now, t0, ok, code, latency, last_log, tmp, pulse, mainv, hist>>

\* lines 130-143: start the timer and issue the request; the transport answers
\* after some latency or never (the calls pass no timeout)
SendRequest(w) ==
  /\ pc[w] = "send"
  /\ hist.attempts < target.cap
  /\ t0' = [t0 EXCEPT ![w] = clock]
  /\ ok' = [ok EXCEPT ![w] = FALSE]
  /\ code' = [code EXCEPT ![w] = NoCode]
  /\ \E l \in target.lats :
       wake' = [wake EXCEPT ![w] = IF l = Never THEN Never ELSE clock + l]
  /\ pc' = [pc EXCEPT ![w] = "inflight"]
  /\ hist' = [hist EXCEPT !.attempts = @ + 1]
  /\ UNCHANGED <<shared, clock, shutdown_flag, job_q, metrics, lock,
                 seen, now, delay, job, latency, last_log, tmp, pulse, mainv>>

\* variant: 200 itself does not count as success
ClassifyAbove(c) == OkLow < c /\ c < OkHigh

\* variant: every status below 500 counts as success
ClassifyBelow(c) == c < OkHigh

\* line 145: ok = 200 <= resp.status_code < 500
Classify(c) == OkLow <= c /\ c < OkHigh

\* line 146: except requests.RequestException
RequestExceptions == {ConnectionError, Timeout}

\* variant: the handler names a class the transport never raises
CaughtNone(e) == FALSE

Caught(e) == e \in RequestExceptions

\* lines 144-148: a response or an exception arrives; stop the timer.  An
\* exception the handler does not catch ends the thread.
Response(w) ==
  /\ pc[w] = "inflight"
  /\ wake[w] # Never
  /\ clock >= wake[w]
  /\ \E r \in target.outcomes :
       IF r \in StatusCodes
         THEN /\ code' = [code EXCEPT ![w] = r]
              /\ ok' = [ok EXCEPT ![w] = Classify(r)]
              /\ latency' = [latency EXCEPT ![w] = clock - t0[w]]
              /\ pc' = [pc EXCEPT ![w] = "rec_lock"]
              /\ hist' = [hist EXCEPT !.completed = @ + 1,
                                      !.resp = Put(@, r, Get(@, r) + 1)]
         ELSE /\ code' = code
              /\ ok' = [ok EXCEPT ![w] = FALSE]
              /\ latency' = [latency EXCEPT ![w] = IF Caught(r) THEN clock - t0[w] ELSE @]
              /\ pc' = [pc EXCEPT ![w] = IF Caught(r) THEN "rec_lock" ELSE "done"]
              /\ hist' = [hist EXCEPT !.completed = @ + 1, !.errors = @ + 1]
  /\ UNCHANGED <<shared, clock, shutdown_flag, job_q, metrics, lock, wake,
                 seen, now, delay, job, t0, last_log, tmp, pulse, mainv>>

(***************************************************************************)
(* Metrics.record(ok, latency, code), lines 71-79, one step per statement  *)
(***************************************************************************)

\* variant: a lock that excludes nobody
CanAcquireAlways(l) == TRUE

\* line 72: the lock can be taken when no thread holds it
CanAcquire(l) == l = Free

\* line 72: with self.lock (enter)
RecordAcquire(w) ==
  /\ pc[w] = "rec_lock"
  /\ CanAcquire(lock)
  /\ lock' = w
  /\ pc' = [pc EXCEPT ![w] = "rec_load"]
  /\ UNCHANGED <<shared, clock, shutdown_flag, job_q, metrics, wake, locals,
                 pulse, mainv, hist>>

\* lines 74 / 77: read the counter that += 1 will update
RecordLoad(w) ==
  /\ pc[w] = "rec_load"
  /\ tmp' = [tmp EXCEPT ![w] = IF ok[w] THEN metrics.success ELSE metrics.fail]
  /\ pc' = [pc EXCEPT ![w] = "rec_store"]
  /\ UNCHANGED <<shared, clock, shutdown_flag, job_q, metrics, lock, wake,
                 seen, now, delay, job, t0, ok, code, latency, last_log, pulse, mainv, hist>>

\* lines 74 / 77: store the incremented counter
RecordStore(w) ==
  /\ pc[w] = "rec_store"
  /\ metrics' = IF ok[w] THEN [metrics EXCEPT !.success = tmp[w] + 1]
                         ELSE [metrics EXCEPT !.fail = tmp[w] + 1]
  /\ pc' = [pc EXCEPT ![w] = IF ok[w] THEN "rec_append" ELSE "rec_code"]
  /\ UNCHANGED <<shared, clock, shutdown_flag, job_q, lock, wake, locals,
                 pulse, mainv, hist>>

\* line 75: self.latencies.append(latency)
RecordAppend(w) ==
  /\ pc[w] = "rec_append"
  /\ metrics' = [metrics EXCEPT !.latencies = Append(@, latency[w])]
  /\ pc' = [pc EXCEPT ![w] = "rec_code"]
  /\ UNCHANGED <<shared, clock, shutdown_flag, job_q, lock, wake, locals,
                 pulse, mainv, hist>>

\* variant: the previous count of the code is dropped
CountCodeFresh(codes, c) == IF c # NoCode THEN Put(codes, c, 1) ELSE codes

\* lines 78-79: the histogram after one outcome
CountCode(codes, c) == IF c # NoCode THEN Put(codes, c, Get(codes, c) + 1) ELSE codes

\* lines 78-79: if code is not None: self.codes[code] = self.codes.get(code, 0) + 1
RecordCode(w) ==
  /\ pc[w] = "rec_code"
  /\ metrics' = [metrics EXCEPT !.codes = CountCode(@, code[w])]
  /\ pc' = [pc EXCEPT ![w] = "rec_unlock"]
  /\ UNCHANGED <<shared, clock, shutdown_flag, job_q, lock, wake, locals,
                 pulse, mainv, hist>>

\* line 72: with self.lock (leave); record returns
RecordRelease(w) ==
  /\ pc[w] = "rec_unlock"
  /\ lock' = Free
  /\ pc' = [pc EXCEPT ![w] = "log"]
  /\ hist' = [hist EXCEPT !.recorded = @ + 1,
                          !.nocode = IF code[w] = NoCode THEN @ + 1 ELSE @]
  /\ UNCHANGED <<shared, clock, shutdown_flag, job_q, metrics, wake, locals,
                 pulse, mainv>>

(***************************************************************************)
(* worker(), lines 151-166: the live progress line and the pacing sleep    *)
(***************************************************************************)

RECURSIVE SumOver(_, _)
SumOver(d, S) ==
  IF S = {} THEN 0
  ELSE LET k == CHOOSE x \in S : TRUE IN d[k] + SumOver(d, S \ {k})

\* sum(v for k, v in codes.items() if lo <= k < hi)
SumRange(d, lo, hi) == SumOver(d, {k \in DOMAIN d : lo <= k /\ k < hi})

\* line 152: time.time() - last_log >= 1.0 and idx == 0
PulseDue(w) == clock - last_log[w] >= LogPeriod /\ w = 0

LogCheck(w) ==
  /\ pc[w] = "log"
  /\ pc' = [pc EXCEPT ![w] = IF PulseDue(w) THEN "log_total" ELSE "pace"]
  /\ UNCHANGED <<shared, clock, shutdown_flag, job_q, metrics, lock, wake, locals,
                 pulse, mainv, hist>>

\* line 153: total = metrics.success + metrics.fail, read without the lock
LogTotal(w) ==
  /\ pc[w] = "log_total"
  /\ pulse' = <<metrics.success + metrics.fail>>
  /\ pc' = [pc EXCEPT ![w] = "log_codes"]
  /\ UNCHANGED <<shared, clock, shutdown_flag, job_q, metrics, lock, wake, locals,
                 mainv, hist>>

\* lines 154-162: the four status-class sums, read without the lock
LogCodes(w) ==
  /\ pc[w] = "log_codes"
  /\ pulse' = pulse \o <<SumRange(metrics.codes, 200, 300), SumRange(metrics.codes, 300, 400),
                         SumRange(metrics.codes, 400, 500), SumRange(metrics.codes, 500, 600)>>
  /\ last_log' = [last_log EXCEPT ![w] = clock]
  /\ pc' = [pc EXCEPT ![w] = "pace"]
  /\ UNCHANGED <<shared, clock, shutdown_flag, job_q, metrics, lock, wake,
                 seen, now, delay, job, t0, ok, code, latency, tmp, mainv, hist>>

\* line 166: delay * (0.8 + 0.4 * rng.random()), with random() given in percent
Jittered(d, r) == (d * (JitterBase + (JitterSpan * r) \div 100)) \div 100

\* lines 164-166: sleep when a delay is set, then loop
Pace(w) ==
  /\ pc[w] = "pace"
  /\ IF delay[w] > 0
       THEN /\ \E r \in RandomPercent :
                 wake' = [wake EXCEPT ![w] = clock + Jittered(delay[w], r)]
            /\ pc' = [pc EXCEPT ![w] = "pace_sleep"]
       ELSE /\ wake' = wake
            /\ pc' = [pc EXCEPT ![w] = "while"]
  /\ UNCHANGED <<shared, clock, shutdown_flag, job_q, metrics, lock, locals,
                 pulse, mainv, hist>>

\* line 166: time.sleep returns
PaceWake(w) ==
  /\ pc[w] = "pace_sleep"
  /\ clock >= wake[w]
  /\ pc' = [pc EXCEPT ![w] = "while"]
  /\ UNCHANGED <<shared, clock, shutdown_flag, job_q, metrics, lock, wake, locals,
                 pulse, mainv, hist>>

(***************************************************************************)
(* main(), lines 267-284, and the SIGINT handler, lines 213-215            *)
(***************************************************************************)
workerv == <<pc, wake, seen, now, delay, job, t0, ok, code, latency, last_log, tmp, pulse>>

\* lines 269-274: 3 * 8 spinner frames, 0.08 s each
Countdown ==
  /\ mpc = "countdown"
  /\ clock >= mwake
  /\ IF mcount > 0
       THEN /\ mcount' = mcount - 1
            /\ mwake' = clock + CountdownSleep
            /\ mpc' = mpc
       ELSE /\ mcount' = 0
            /\ mwake' = mwake
            /\ mpc' = "poll"
  /\ UNCHANGED <<shared, clock, shutdown_flag, job_q, metrics, lock, workerv, report, hist>>

\* lines 277-278: while time.time() < end_ts and not shutdown_flag.is_set(): sleep(0.2)
Poll ==
  /\ mpc = "poll"
  /\ clock >= mwake
  /\ IF clock < end_ts /\ ~IsSet(shutdown_flag)
       THEN /\ mwake' = clock + PollInterval
            /\ mpc' = mpc
       ELSE /\ mwake' = mwake
            /\ mpc' = "set"
  /\ UNCHANGED <<shared, clock, shutdown_flag, job_q, metrics, lock, workerv,
                 mcount, report, hist>>

\* threading.Event.set() (lines 214, 279): the flag after the call
EventToggle(e) == ~e
EventSet(e) == TRUE

\* history: was the flag first set before the window opened
FlagSetNow == [hist EXCEPT !.early = IF shutdown_flag THEN @ ELSE clock < start_ts]

\* line 279: shutdown_flag.set(); then the first join starts
SetFlag ==
  /\ mpc = "set"
  /\ shutdown_flag' = EventSet(shutdown_flag)
  /\ hist' = FlagSetNow
  /\ mpc' = "join"
  /\ mcount' = 0
  /\ mwake' = clock + JoinTimeout
  /\ UNCHANGED <<shared, clock, job_q, metrics, lock, workerv, report>>

\* line 282: t.join(timeout=1) returns when the thread ended or the timeout passed
JoinReturnsAtOnce(j) == TRUE
JoinWaitsForEnd(j) == pc[j] = "done"
JoinReturns(j) == pc[j] = "done" \/ clock >= mwake

\* lines 281-282: the joins, one thread after the other; a thread whose join
\* timed out is left running (history: abandoned)
Join ==
  /\ mpc = "join"
  /\ IF mcount < args.threads
       THEN /\ JoinReturns(mcount)
            /\ mcount' = mcount + 1
            /\ mwake' = clock + JoinTimeout
            /\ mpc' = mpc
            /\ hist' = IF pc[mcount] # "done" /\ clock >= mwake
                         THEN [hist EXCEPT !.abandoned = @ \cup {mcount}]
                         ELSE hist
       ELSE /\ mcount' = mcount
            /\ mwake' = mwake
            /\ mpc' = "rep_total"
            /\ hist' = hist
  /\ UNCHANGED <<shared, clock, shutdown_flag, job_q, metrics, lock, workerv, report>>

\* lines 181, 284: duration = max(0.001, min(time.time(), end_ts) - start_ts), in ms
Elapsed == LET d == MinOf(clock, end_ts) - start_ts IN IF d < 1 THEN 1 ELSE d

\* lines 181-183: print_report reads the counters, without the lock
ReportTotals ==
  /\ mpc = "rep_total"
  /\ report' = [duration |-> Elapsed, total |-> metrics.success + metrics.fail]
  /\ mpc' = "rep_lat"
  /\ UNCHANGED <<shared, clock, shutdown_flag, job_q, metrics, lock, workerv,
                 mwake, mcount, hist>>

\* lines 184-187: print_report reads the latency samples
ReportLatencies ==
  /\ mpc = "rep_lat"
  /\ report' = [duration |-> report.duration, total |-> report.total,
                latencies |-> metrics.latencies]
  /\ mpc' = "rep_print"
  /\ UNCHANGED <<shared, clock, shutdown_flag, job_q, metrics, lock, workerv,
                 mwake, mcount, hist>>

\* lines 198-209: the printed counters and the status code breakdown
ReportPrint ==
  /\ mpc = "rep_print"
  /\ report' = [duration |-> report.duration, total |-> report.total,
                latencies |-> report.latencies,
                success |-> metrics.success, fail |-> metrics.fail,
                codes |-> metrics.codes]
  /\ mpc' = "exit"
  /\ UNCHANGED <<shared, clock, shutdown_flag, job_q, metrics, lock, workerv,
                 mwake, mcount, hist>>

\* lines 213-215: Ctrl-C
sigint_handler ==
  /\ mpc # "exit"
  /\ shutdown_flag' = EventSet(shutdown_flag)
  /\ hist' = [FlagSetNow EXCEPT !.sigint = TRUE]
  /\ UNCHANGED <<shared, clock, job_q, metrics, lock, workerv, mainv>>

(***************************************************************************)
(* The clock                                                               *)
(***************************************************************************)
Sleeping(w) == pc[w] \in {"warm_sleep", "pace_sleep", "inflight"}

Deadlines ==
  {wake[w] : w \in {v \in Workers : Sleeping(v) /\ wake[v] > clock}}
  \cup (IF mpc \in {"countdown", "poll", "join"} /\ mwake > clock THEN {mwake} ELSE {})

\* A thread can be descheduled between the flag check on line 106 and the clock
\* reading on line 107; the model lets the opening of the window fall in between.
Overtaken(w) ==
  pc[w] = "now" /\ clock < start_ts /\ Deadlines # {} /\ Min(Deadlines) >= start_ts

WorkerReady(w) ==
  CASE Sleeping(w) -> wake[w] # Never /\ clock >= wake[w]
    [] pc[w] = "rec_lock" -> CanAcquire(lock)
    [] pc[w] = "send" -> hist.attempts < target.cap
    [] pc[w] = "now" -> ~Overtaken(w)
    [] pc[w] = "done" -> FALSE
    [] OTHER -> TRUE

MainReady ==
  CASE mpc \in {"countdown", "poll"} -> clock >= mwake
    [] mpc = "join" -> mcount >= args.threads \/ JoinReturns(mcount)
    [] mpc = "exit" -> FALSE
    [] OTHER -> TRUE

\* time passes, up to the next wake-up, when every thread is blocked or overtaken
Tick ==
  /\ ~MainReady
  /\ \A w \in Workers : ~WorkerReady(w)
  /\ Deadlines # {}
  /\ clock' = Min(Deadlines)
  /\ UNCHANGED <<shared, shutdown_flag, job_q, metrics, lock, workerv, mainv, hist>>

Next ==
  \/ \E w \in Workers : WhileCheck(w)
  \/ \E w \in Workers : WindowCheck(w)
  \/ \E w \in Workers : WarmupWake(w)
  \/ \E w \in Workers : TakeJob(w)
  \/ \E w \in Workers : SendRequest(w)
  \/ \E w \in Workers : Response(w)
  \/ \E w \in Workers : RecordAcquire(w)
  \/ \E w \in Workers : RecordLoad(w)
  \/ \E w \in Workers : RecordStore(w)
  \/ \E w \in Workers : RecordAppend(w)
  \/ \E w \in Workers : RecordCode(w)
  \/ \E w \in Workers : RecordRelease(w)
  \/ \E w \in Workers : LogCheck(w)
  \/ \E w \in Workers : LogTotal(w)
  \/ \E w \in Workers : LogCodes(w)
  \/ \E w \in Workers : Pace(w)
  \/ \E w \in Workers : PaceWake(w)
  \/ Countdown
  \/ Poll
  \/ SetFlag
  \/ Join
  \/ ReportTotals
  \/ ReportLatencies
  \/ ReportPrint
  \/ sigint_handler
  \/ Tick

Spec == Init /\ [][Next]_vars

\* The run started with requests that may hang.  Every thread that can take a
\* step is scheduled eventually, and time passes.
HangInit == InitOf(HangRuns)
FairSpec == HangInit /\ [][Next]_vars /\ WF_vars(Next)

(***************************************************************************)
(* percentile (lines 169-178), on its own                                  *)
(* Samples and p are integers and the arithmetic is exact; a result is     *)
(* held in hundredths.                                                     *)
(***************************************************************************)
SampleValues == {0, 5, 7}
Samples == UNION { [1..n -> SampleValues] : n \in 0..MaxSamples }
Percents == 0..100
NaN == "nan"

RECURSIVE Insert(_, _)
Insert(x, s) ==
  IF s = <<>> THEN <<x>>
  ELSE IF x <= Head(s) THEN <<x>> \o s
  ELSE <<Head(s)>> \o Insert(x, Tail(s))

RECURSIVE Ascending(_)
Ascending(s) == IF s = <<>> THEN <<>> ELSE Insert(Head(s), Ascending(Tail(s)))

RECURSIVE Reversed(_)
Reversed(s) == IF s = <<>> THEN <<>> ELSE Reversed(Tail(s)) \o <<Head(s)>>

\* line 172: sorted(values) returns a new list in ascending order (new) and
\* leaves the list it was given as it is (arg)
Unsorted(s) == [new |-> s, arg |-> s]
Descending(s) == [new |-> Reversed(Ascending(s)), arg |-> s]
SortedInPlace(s) == [new |-> Ascending(s), arg |-> Ascending(s)]
Sorted(s) == [new |-> Ascending(s), arg |-> s]

\* lines 170-178: the value returned, and the list passed as the call leaves it;
\* k is held in hundredths, int(k) is k \div 100 since k >= 0
Percentile(values, p) ==
  IF values = <<>> THEN [result |-> NaN, values |-> values]
  ELSE LET sorted == Sorted(values)
           v == sorted.new
           k == (Len(v) - 1) * p
           f == k \div PctScale
           c == MinOf(f + 1, Len(v) - 1)
       IN [result |-> IF f = c THEN PctScale * v[f + 1]
                      ELSE PctScale * v[f + 1] + (v[c + 1] - v[f + 1]) * (k - PctScale * f),
           values |-> sorted.arg]

\* one call percentile(metrics.latencies, p) as print_report makes them (lines
\* 184-186): the list passed, the result, and the list after the call
PercentileCall ==
  /\ mpc = "pct"
  /\ \E p \in Percents :
       LET call == Percentile(metrics.latencies, p)
       IN /\ report' = [p |-> p, values |-> metrics.latencies, result |-> call.result]
          /\ metrics' = [metrics EXCEPT !.latencies = call.values]
  /\ mpc' = "pct_done"
  /\ UNCHANGED <<shared, clock, shutdown_flag, job_q, lock, workerv, mwake, mcount, hist>>

\* print_report is about to compute a percentile of some list of samples
PctInit ==
  /\ args = MakeArgs(1, 0, 1, PlainRequest)
  /\ target = FastTarget
  /\ clock = 0
  /\ start_ts = WARMUP
  /\ end_ts = WARMUP + 1000
  /\ shutdown_flag = TRUE
  /\ job_q = <<>>
  /\ \E l \in Samples : metrics = [MetricsInit EXCEPT !.latencies = l, !.success = Len(l)]
  /\ lock = Free
  /\ pc = [w \in {0} |-> "done"]
  /\ wake = [w \in {0} |-> 0]
  /\ seen = [w \in {0} |-> FALSE]
  /\ now = [w \in {0} |-> 0]
  /\ delay = [w \in {0} |-> 0]
  /\ job = [w \in {0} |-> <<>>]
  /\ t0 = [w \in {0} |-> 0]
  /\ ok = [w \in {0} |-> FALSE]
  /\ code = [w \in {0} |-> NoCode]
  /\ latency = [w \in {0} |-> 0]
  /\ last_log = [w \in {0} |-> 0]
  /\ tmp = [w \in {0} |-> 0]
  /\ pulse = <<>>
  /\ mpc = "pct"
  /\ mwake = 0
  /\ mcount = 0
  /\ report = <<>>
  /\ hist = [attempts |-> 0, completed |-> 0, recorded |-> 0, nocode |-> 0,
             errors |-> 0, resp |-> <<>>, sigint |-> FALSE,
             early |-> FALSE, abandoned |-> {}]

PctNext == PercentileCall
PctSpec == PctInit /\ [][PctNext]_vars

(***************************************************************************)
(* Properties                                                              *)
(***************************************************************************)
InRecord(w) == pc[w] \in {"rec_load", "rec_store", "rec_append", "rec_code", "rec_unlock"}

\* no record call is in progress
Quiet == \A w \in Workers : ~InRecord(w)

\* every completed attempt has been recorded
Settled == \A w \in Workers : pc[w] # "rec_lock" /\ ~InRecord(w)

SumAll(d) == SumOver(d, DOMAIN d)

\* C1: whenever no record call is in progress, success + fail is the number of
\* record calls that have completed, and there is one latency sample per success.
C1_NoLostUpdate ==
  Quiet => /\ metrics.success + metrics.fail = hist.recorded
           /\ Len(metrics.latencies) = metrics.success

\* two workers run, and successes and failures have been recorded
C1_Witness ==
  /\ Quiet
  /\ args.threads >= 2
  /\ hist.recorded >= 2
  /\ metrics.success >= 1
  /\ metrics.fail >= 1

\* a record call has written its counter but not yet its sample or its code
Partial(w) == pc[w] = "rec_append" \/ (pc[w] = "rec_code" /\ code[w] # NoCode)

\* C2: no read of the metrics by the live progress line or by print_report is made
\* while a record call has updated some of the fields but not the others.
C2_NoTornRead ==
  [][(pulse' # pulse \/ report' # report) => \A w \in Workers : ~Partial(w)]_vars

\* C3: between record calls, success + fail is the sum of all counts in codes
\* plus the number of recorded failures that had no status code.
C3_CodesAccount ==
  Quiet => metrics.success + metrics.fail = SumAll(metrics.codes) + hist.nocode

\* a code has been counted twice and a failure without a code has been recorded
C3_Witness ==
  /\ Quiet
  /\ hist.nocode >= 1
  /\ \E c \in DOMAIN metrics.codes : metrics.codes[c] >= 2

AfterResponse(w) == pc[w] = "rec_lock" \/ InRecord(w)

\* C4: a response with status c is a success exactly when 200 <= c < 500 (199 and
\* 500 fail, 200 and 499 succeed) and a transport error is a failure without a
\* code; once every attempt is recorded, codes holds one count per response
\* received, success the responses in [200, 500) and fail all the rest.
C4_Classification ==
  /\ \A w \in Workers : AfterResponse(w) =>
       /\ code[w] = NoCode => ~ok[w]
       /\ code[w] \in {199, 500} => ~ok[w]
       /\ code[w] \in {200, 499} => ok[w]
       /\ ok[w] <=> (code[w] # NoCode /\ 200 <= code[w] /\ code[w] < 500)
  /\ Settled =>
       /\ metrics.codes = hist.resp
       /\ metrics.success = SumRange(hist.resp, 200, 500)
       /\ metrics.fail = hist.errors + SumAll(hist.resp) - SumRange(hist.resp, 200, 500)

\* 199 and 499 have been answered and a transport error was raised, all recorded
C4_Witness ==
  /\ Settled
  /\ {199, 499} \subseteq DOMAIN metrics.codes
  /\ hist.errors = 1
  /\ metrics.success = 1
  /\ metrics.fail = 2

\* C5: a worker that takes a job or has begun a request read a clock value inside
\* the window in this iteration and saw the shutdown flag unset.
C5_InsideWindow ==
  \A w \in Workers : pc[w] \in {"job", "send", "inflight"} =>
    /\ start_ts <= now[w]
    /\ now[w] < end_ts
    /\ ~seen[w]

\* a request is in flight that was begun at the first instant of the window
C5_Witness ==
  \E w \in Workers : pc[w] = "inflight" /\ now[w] = start_ts /\ t0[w] = start_ts

\* C6: once the shutdown flag is set, no worker is in a sleep that lasts longer than
\* a small bounded interval (the controller's poll interval) before it re-checks
\* the flag, for rps = 0 and rps > 0 alike.
C6_BoundedBlocking ==
  shutdown_flag =>
    \A w \in Workers : pc[w] \in {"warm_sleep", "pace_sleep"} => wake[w] - clock <= PollInterval

\* C7: every transport error is caught and recorded as exactly one failure without
\* a status code, and a worker leaves its loop only at the loop check with the
\* shutdown flag set or at the window check with the window closed.
C7_ErrorContained ==
  /\ [](/\ \A w \in Workers : AfterResponse(w) /\ code[w] = NoCode => ~ok[w]
        /\ Settled => hist.nocode = hist.errors)
  /\ [][\A w \in Workers : (pc[w] # "done" /\ pc'[w] = "done") =>
          \/ pc[w] = "while" /\ shutdown_flag
          \/ pc[w] = "now" /\ clock >= end_ts]_vars

\* the only worker had a transport error recorded and has begun its next request
C7_Witness ==
  /\ args.threads = 1
  /\ hist.errors = 1
  /\ hist.nocode = 1
  /\ metrics.fail = 1
  /\ pc[0] = "inflight"

\* C8: the delay a worker applies after a request is T / R seconds for rps = R > 0
\* and T threads, and with R = 0 it is 0 and the worker does not sleep.
C8_NominalDelay ==
  \A w \in Workers :
    /\ pc[w] = "pace" =>
         delay[w] = IF args.rps > 0 THEN (args.threads * 1000) \div args.rps ELSE 0
    /\ pc[w] = "pace_sleep" => args.rps > 0

\* C9: with rps = R > 0 and negligible latency, the requests recorded over an
\* uninterrupted window of D seconds number within 20% of R * D, whatever T is.
\* Stated for T > 1, where the count does not hinge on the jitter drawn.
C9_RateBand ==
  (/\ target = FastTarget
   /\ args.rps > 0
   /\ args.threads > 1
   /\ ~hist.sigint
   /\ mpc = "exit"
   /\ \A w \in Workers : pc[w] = "done")
  => LET total == metrics.success + metrics.fail
         nominal == args.rps * args.duration
     IN 80 * nominal <= 100 * total /\ 100 * total <= 120 * nominal

\* C10: every job a worker holds when it sends a request, popped or fallback, is
\* the run's default (method, URL, payload, headers).
C10_DefaultJob ==
  \A w \in Workers : pc[w] \in {"send", "inflight"} => job[w] = DefaultJob(args)

\* print_report has begun to read the metrics
ReportStarted == mpc \in {"rep_lat", "rep_print", "exit"} /\ report # <<>>

\* C11 as stated: no record call changes the metrics once print_report has begun
\* to read them, so the counts it prints are final.
C11_FinalSnapshot ==
  [][ReportStarted => metrics' = metrics]_vars

\* C11: print_report starts only after every worker has ended or its join has
\* timed out; when no join timed out every worker has ended and the metrics do
\* not change after the read, otherwise an abandoned worker may still record.
C11_ReadAfterJoins ==
  /\ [](mpc \in {"rep_total", "rep_lat", "rep_print", "exit"} =>
          \A w \in Workers : pc[w] = "done" \/ w \in hist.abandoned)
  /\ [][ReportStarted /\ hist.abandoned = {} => metrics' = metrics]_vars

\* the report is printed, a join had timed out, and the abandoned worker has
\* recorded an outcome the printed total does not include
C11_Witness ==
  /\ mpc = "exit"
  /\ hist.abandoned # {}
  /\ Quiet
  /\ report.total < metrics.success + metrics.fail

\* C12: once the window has closed or the shutdown flag is set, the controller
\* reaches print_report, also when workers never return from a request; while it
\* joins a worker it waits no longer than the join timeout.
C12_ReportReached ==
  /\ (shutdown_flag \/ clock >= end_ts) ~> (mpc = "exit")
  /\ [](mpc = "join" /\ mcount < args.threads =>
          clock <= mwake /\ mwake - clock <= JoinTimeout)

\* the report is printed while every worker is still waiting for an answer that
\* never comes
C12_Witness ==
  /\ mpc = "exit"
  /\ \A w \in Workers : pc[w] = "inflight" /\ wake[w] = Never
  /\ hist.abandoned = Workers

\* C13 as stated: every response with a status below 500, also one below 200, is
\* a success, and only transport errors and statuses from 500 up are failures.
C13_BelowFiveHundred ==
  \A w \in Workers : AfterResponse(w) =>
    (ok[w] <=> (code[w] # NoCode /\ code[w] < 500))

\* C13: a response is a success when its status is below 500 and not below 200;
\* transport errors, statuses from 500 up and statuses below 200 are failures.
C13_SuccessRange ==
  \A w \in Workers : AfterResponse(w) =>
    /\ (code[w] # NoCode /\ code[w] < 500 /\ code[w] >= 200) => ok[w]
    /\ ~ok[w] => (code[w] = NoCode \/ code[w] >= 500 \/ code[w] < 200)
    /\ (code[w] # NoCode /\ code[w] < 200) => ~ok[w]

\* a response with status 199 has been received and classified as a failure
C13_Witness ==
  \E w \in Workers : AfterResponse(w) /\ code[w] = 199 /\ ~ok[w]

\* the i-th smallest of the samples, by counting
Kth(values, i) ==
  CHOOSE x \in {values[j] : j \in 1..Len(values)} :
    /\ Cardinality({j \in 1..Len(values) : values[j] < x}) < i
    /\ Cardinality({j \in 1..Len(values) : values[j] <= x}) >= i

PctDone == mpc = "pct_done"

\* C14: percentile of an empty list is NaN; of [x] it is x; otherwise, with k =
\* (n-1)*p/100, f = floor(k), c = min(f+1, n-1), it is the (f+1)-th smallest sample
\* when f = c and that sample plus (k - f) times the step to the (c+1)-th smallest
\* otherwise; p = 50 on an even-length list gives the midpoint of the two middle
\* samples; the list passed is left in its order.
C14_Percentile ==
  PctDone =>
    LET l == report.values
        n == Len(l)
        k == (n - 1) * report.p
        f == k \div 100
        c == IF f + 1 < n - 1 THEN f + 1 ELSE n - 1
    IN /\ metrics.latencies = l
       /\ n = 0 => report.result = NaN
       /\ n = 1 => report.result = 100 * l[1]
       /\ (n > 0 /\ f = c) => report.result = 100 * Kth(l, f + 1)
       /\ (n > 0 /\ f # c) =>
            report.result = 100 * Kth(l, f + 1) + (Kth(l, c + 1) - Kth(l, f + 1)) * (k - 100 * f)
       /\ (n > 0 /\ n % 2 = 0 /\ report.p = 50) =>
            report.result = 50 * (Kth(l, n \div 2) + Kth(l, n \div 2 + 1))

\* the median of an even number of samples given out of order fell between two
\* different middle samples
C14_Witness ==
  /\ PctDone
  /\ report.values = <<7, 0, 5, 0>>
  /\ report.p = 50
  /\ report.result = 250

\* C15: for a non-empty list, the result for p is at most the result for every
\* larger percentage.
C15_Monotonic ==
  (PctDone /\ report.values # <<>>) =>
    \A q \in Percents : q > report.p => report.result <= Percentile(report.values, q).result

\* a result strictly between the smallest and the largest sample
C15_Witness ==
  /\ PctDone
  /\ report.values # <<>>
  /\ Percentile(report.values, 0).result < report.result
  /\ report.result < Percentile(report.values, 100).result

\* the report of an uninterrupted run of one unpaced worker for 1 s against the
\* target that always answers 200 in 5 ms
SteadyReport ==
  /\ target = SteadyTarget
  /\ args.threads = 1 /\ args.rps = 0 /\ args.duration = 1
  /\ ~hist.sigint
  /\ mpc = "exit"

\* C16 as stated: that report shows success = fail + 1 with fail = 0 and the one
\* bucket 200 in codes.
C16_OneSuccess ==
  SteadyReport =>
    /\ report.success = report.fail + 1
    /\ report.fail = 0
    /\ DOMAIN report.codes = {200}

\* C16: that report shows fail = 0, success = the total number of requests, which
\* is at least 1 and at most the 200 that fit in the window, and the one bucket
\* 200 in codes, holding all of them.
C16_AllSuccess ==
  SteadyReport =>
    /\ report.fail = 0
    /\ report.success = report.total
    /\ report.success >= 1
    /\ report.success * 5 <= args.duration * 1000
    /\ DOMAIN report.codes = {200}
    /\ report.codes[200] = report.success
    /\ Len(report.latencies) = report.success
    /\ \A i \in 1..Len(report.latencies) : report.latencies[i] = 5

\* the report of that run, with more than one request made
C16_Witness ==
  /\ SteadyReport
  /\ report.success > 1
  /\ pc[0] = "done"

\* C17: once the shutdown flag is set it stays set in every later state; setting
\* it again, by the handler or by the controller, leaves it set.
C17_FlagMonotonic ==
  [][shutdown_flag => shutdown_flag']_vars

\* Ctrl-C set the flag, and the controller has set it again after its poll loop
C17_Witness ==
  /\ hist.sigint
  /\ mpc = "join"
  /\ shutdown_flag

\* C18: every completed attempt has its one record call, done or under way, and
\* every attempt begun is completed or in flight: nothing is sent twice.
C18_OneRecordPerAttempt ==
  /\ hist.completed = hist.recorded + Cardinality({w \in Workers : AfterResponse(w)})
  /\ hist.attempts = hist.completed + Cardinality({w \in Workers : pc[w] = "inflight"})
  /\ hist.attempts - hist.recorded <= args.threads

\* a failed attempt has been recorded and the same worker has recorded another
\* attempt since, while a request is in flight
C18_Witness ==
  /\ hist.errors >= 1
  /\ hist.recorded >= 2
  /\ hist.attempts > hist.completed
  /\ \E w \in Workers : pc[w] = "inflight"

\* C19: between record calls, success is the sum of codes[c] over 200 <= c < 500,
\* and fail is the number of failures without a code plus the sum of codes[c]
\* over the other c.
C19_SuccessHasCode ==
  Quiet =>
    /\ metrics.success = SumRange(metrics.codes, 200, 500)
    /\ metrics.fail = hist.nocode + SumOver(metrics.codes,
                         {c \in DOMAIN metrics.codes : c < 200 \/ c >= 500})

\* a success, a failure with a code and a failure without one have been recorded
C19_Witness ==
  /\ Quiet
  /\ metrics.success >= 1
  /\ hist.nocode >= 1
  /\ \E c \in DOMAIN metrics.codes : c >= 500

\* C20 as stated: when the flag was set before the window opened, no request is
\* ever issued and the metrics stay empty.
C20_NoRequest ==
  hist.early => (hist.attempts = 0 /\ metrics = MetricsInit)

\* C20: when the flag was set before the window opened, no worker issues more
\* than one request (a worker that had passed its loop check before the flag was
\* set may still issue one), so the metrics hold at most one outcome per worker.
C20_AtMostOneEach ==
  hist.early =>
    /\ hist.attempts <= args.threads
    /\ metrics.success + metrics.fail <= args.threads
    /\ Len(metrics.latencies) <= args.threads
    /\ SumAll(metrics.codes) <= args.threads

\* the flag was set before the window opened, and a worker that was past its
\* loop check has its request recorded and has ended
C20_Witness ==
  /\ hist.early
  /\ hist.attempts >= 1
  /\ metrics.success + metrics.fail >= 1
  /\ \A w \in Workers : pc[w] = "done"

====
